---- MODULE Spec2Model ----
(***************************************************************************)
(* Model of the multi-interface OPC UA examples:                           *)
(*   - the basic example (main, connectWithLocalAddr, readNodeValue),      *)
(*   - the advanced example (MultiInterfaceManager, DeviceConnection,      *)
(*     monitorDevice, healthCheck),                                        *)
(*   - the LocalAddr option exercised by TestLocalAddrOption.              *)
(* The variable prog says which of the three programs is running.          *)
(***************************************************************************)
EXTENDS Integers, Sequences, FiniteSets, TLC

\* ------------------------------------------------------------------ bounds
MaxDevices == 2
MaxClients == 2
MaxMonitors == 2
MaxAddrLen == 3

\* --------------------------------------------------------------- constants
Nil == 0
NoErr == "nil"
\* The two errors connectDevice returns (its fmt.Errorf prefixes).
ErrCreate == "create client failed"
ErrConnect == "connect failed"
Errors == {ErrCreate, ErrConnect}
MainThread == 0
NoThread == -1

\* Characters of a local address, by class: two digits, dot, colon, the
\* brackets of an IPv6 literal, and a letter.
Digits == {"0", "1"}
Chars == Digits \cup {".", ":", "[", "]", "a"}

\* "192.168.100.10:0", "192.168.100.20:0" and "192.168.1.10" by class.
AddrA == <<"1", ".", "0", ":", "0">>
AddrB == <<"1", ".", "1", ":", "0">>
AddrNoPort == <<"1", ".", "0">>
AddrInvalid == <<"a", "a">>
AddrV6 == <<"[", ":", ":", "1", "]", ":", "0">>
AddrEmpty == <<>>

Endpoints == {"opc.tcp://192.168.100.1:4840", "opc.tcp://192.168.200.1:4840"}
LocalAddrs == {AddrA, AddrB, AddrNoPort}

\* The devices AddDevice is given: the two of main (one endpoint behind two
\* local addresses), and one at another endpoint with a local address that
\* has no port.
DeviceConfigs ==
  { <<"opc.tcp://192.168.100.1:4840", AddrA>>,
    <<"opc.tcp://192.168.100.1:4840", AddrB>>,
    <<"opc.tcp://192.168.200.1:4840", AddrNoPort>> }

\* ------------------------------------------------- the LocalAddr option
\* Index of the first / last occurrence of c in s, 0 when there is none.
IndexByte(s, c) ==
  IF \E i \in 1..Len(s) : s[i] = c
  THEN CHOOSE i \in 1..Len(s) : s[i] = c /\ \A j \in 1..(i - 1) : s[j] # c
  ELSE 0

LastIndexByte(s, c) ==
  IF \E i \in 1..Len(s) : s[i] = c
  THEN CHOOSE i \in 1..Len(s) : s[i] = c /\ \A j \in (i + 1)..Len(s) : s[j] # c
  ELSE 0

Contains(s, c) == \E i \in 1..Len(s) : s[i] = c

\* net.SplitHostPort: the port follows the last colon; a host holding a colon
\* must be bracketed; no other bracket may appear.
SplitHostPort(hostport) ==
  LET i == LastIndexByte(hostport, ":")
      bad == [host |-> <<>>, port |-> <<>>, ok |-> FALSE]
  IN IF i = 0 THEN bad
     ELSE IF hostport[1] = "["
     THEN LET end == IndexByte(hostport, "]")
          IN IF end = 0 \/ end = Len(hostport) \/ end + 1 # i THEN bad
             ELSE IF Contains(SubSeq(hostport, 2, Len(hostport)), "[")
                     \/ Contains(SubSeq(hostport, end + 1, Len(hostport)), "]")
             THEN bad
             ELSE [host |-> SubSeq(hostport, 2, end - 1),
                   port |-> SubSeq(hostport, i + 1, Len(hostport)), ok |-> TRUE]
     ELSE LET host == SubSeq(hostport, 1, i - 1)
          IN IF Contains(host, ":") \/ Contains(hostport, "[") \/ Contains(hostport, "]")
             THEN bad
             ELSE [host |-> host,
                   port |-> SubSeq(hostport, i + 1, Len(hostport)), ok |-> TRUE]

\* The host of a TCP address: empty (any interface) or an IP literal. A host
\* with a letter is a name, and no name resolves here.
IsIPLiteral(host) ==
  /\ Len(host) > 0
  /\ \A i \in 1..Len(host) : host[i] \in Digits \cup {".", ":"}
  /\ \E i \in 1..Len(host) : host[i] \in Digits
  /\ ~(Contains(host, ".") /\ Contains(host, ":"))
  /\ Contains(host, ".") =>
       /\ host[1] # "." /\ host[Len(host)] # "."
       /\ \A i \in 1..(Len(host) - 1) : ~(host[i] = "." /\ host[i + 1] = ".")

IsPort(port) == \A i \in 1..Len(port) : port[i] \in Digits

\* net.ResolveTCPAddr("tcp", addr)
ResolveTCPAddr(addr) ==
  LET hp == SplitHostPort(addr)
  IN hp.ok /\ IsPort(hp.port) /\ (hp.host = <<>> \/ IsIPLiteral(hp.host))

\* opcua.LocalAddr(addr): the option's error when it is applied by NewClient.
LocalAddrNoEmptyCase(addr) ==
  IF ResolveTCPAddr(addr) THEN NoErr ELSE ErrCreate

LocalAddr(addr) ==
  IF addr = <<>> THEN NoErr
  ELSE IF ResolveTCPAddr(addr) THEN NoErr ELSE ErrCreate

\* createCustomDialer(localAddr) returns opcua.LocalAddr(localAddr).
createCustomDialer(localAddr) == LocalAddr(localAddr)

\* ------------------------------------------------------------------- state
VARIABLES
  prog,       \* which program runs: "manager", "basic" or "test"
  clients,    \* every *opcua.Client created: [endpoint, localAddr, st]
  \* MultiInterfaceManager and its DeviceConnections
  devices,    \* m.devices: [Name, Endpoint, LocalAddr, Client, Connected, LastError]
  muW,        \* device.mu: the thread holding the write lock, or NoThread
  muR,        \* device.mu: the threads holding a read lock
  cancelled,  \* m.ctx is done (m.cancel was called)
  wg,         \* m.wg's counter
  mon,        \* the monitorDevice goroutines: [device, pc, client, health]
  \* the goroutine that calls the manager's methods
  mainpc,     \* where it is
  mi,         \* the index of the range loop it is in
  mclient,    \* connectDevice's local client
  merr,       \* the error connectDevice returned to ConnectAll
  ret,        \* the last call that returned: [op, err]
  attempts,   \* the connectDevice results of the ConnectAll in progress or just returned
  acc,        \* the accesses to Client/Connected/LastError made by the last step
  \* the basic example's main
  flags,      \* [endpoint1, endpoint2, local1, local2]
  bpc,        \* where main is
  cwclient,   \* connectWithLocalAddr's local c
  cwret,      \* what connectWithLocalAddr returned: [client, err]
  client1,
  client2,
  defers,     \* main's deferred Close calls, last in last
  exitcode,   \* the process's exit code, -1 while it runs
  \* TestLocalAddrOption
  taddr,      \* tt.localAddr
  tpc,
  terr        \* the error of opcua.NewClient

mgrvars == <<devices, muW, muR, cancelled, wg, mon, mainpc, mi, mclient, merr,
             ret, attempts, acc>>
basicvars == <<flags, bpc, cwclient, cwret, client1, client2, defers, exitcode>>
testvars == <<taddr, tpc, terr>>
vars == <<prog, clients, mgrvars, basicvars, testvars>>

DeviceIds == 1..MaxDevices

NoRet == [op |-> "none", err |-> NoErr]
NoFlags == [endpoint1 |-> "", endpoint2 |-> "", local1 |-> <<>>, local2 |-> <<>>]
NoCwRet == [client |-> Nil, err |-> NoErr]

\* All addresses of at most n characters.
RECURSIVE AddrsUpTo(_)
AddrsUpTo(n) ==
  IF n = 0 THEN {<<>>}
  ELSE LET shorter == AddrsUpTo(n - 1)
       IN shorter \cup {Append(a, c) : a \in {x \in shorter : Len(x) = n - 1}, c \in Chars}

\* The table of TestLocalAddrOption, and every short address beside it.
TestAddrs == {AddrA, AddrNoPort, AddrEmpty, AddrInvalid, AddrV6}
AddrInputs == AddrsUpTo(MaxAddrLen) \cup TestAddrs

\* NewMultiInterfaceManager: no devices, a live context, a zero WaitGroup.
NewMultiInterfaceManager ==
  /\ devices = <<>>
  /\ muW = [d \in DeviceIds |-> NoThread]
  /\ muR = [d \in DeviceIds |-> {}]
  /\ cancelled = FALSE
  /\ wg = 0
  /\ mon = <<>>
  /\ mainpc = "idle"
  /\ mi = 0
  /\ mclient = Nil
  /\ merr = NoErr
  /\ ret = NoRet
  /\ attempts = <<>>
  /\ acc = {}

BasicIdle ==
  /\ flags = NoFlags
  /\ bpc = <<"off", 0>>
  /\ cwclient = Nil
  /\ cwret = NoCwRet
  /\ client1 = Nil
  /\ client2 = Nil
  /\ defers = <<>>
  /\ exitcode = -1

TestIdle ==
  /\ taddr = <<>>
  /\ tpc = "off"
  /\ terr = NoErr

InitManager ==
  /\ prog = "manager"
  /\ clients = <<>>
  /\ NewMultiInterfaceManager
  /\ BasicIdle
  /\ TestIdle

\* main of the basic example after flag.Parse.
InitBasic ==
  /\ prog = "basic"
  /\ clients = <<>>
  /\ NewMultiInterfaceManager
  /\ flags \in [endpoint1 : Endpoints, endpoint2 : Endpoints,
                local1 : LocalAddrs, local2 : LocalAddrs]
  /\ bpc = <<"new", 1>>
  /\ cwclient = Nil
  /\ cwret = NoCwRet
  /\ client1 = Nil
  /\ client2 = Nil
  /\ defers = <<>>
  /\ exitcode = -1
  /\ TestIdle

\* One row of TestLocalAddrOption's table.
InitTest ==
  /\ prog = "test"
  /\ clients = <<>>
  /\ NewMultiInterfaceManager
  /\ BasicIdle
  /\ taddr \in AddrInputs
  /\ tpc = "run"
  /\ terr = NoErr

Init == InitManager \/ InitBasic \/ InitTest

\* ------------------------------------------------------- the client library
\* opcua.NewClient(endpoint, ..., LocalAddr(localAddr), ...): applies the
\* options; an option's error is NewClient's error.
NewClientErr(endpoint, localAddr) == LocalAddr(localAddr)

NewClientRec(endpoint, localAddr) ==
  [endpoint |-> endpoint, localAddr |-> localAddr, st |-> "new"]

\* The outcomes of client.Connect(ctx): it fails on a done context, and
\* otherwise succeeds or fails as the network decides.
ConnectOutcomes(ctxDone) == IF ctxDone THEN {FALSE} ELSE {TRUE, FALSE}

\* client.Close(ctx) on client c.
ClientClose(cs, c) == [cs EXCEPT ![c].st = "closed"]

\* ------------------------------------------------------------- device.mu
\* sync.RWMutex: Lock waits for no holder at all, RLock for no writer.
CanLock(d) == muW[d] = NoThread /\ muR[d] = {}
CanRLock(d) == muW[d] = NoThread
\* How thread t holds device d's mu: "w", "r" or "none".
Held(t, d) == IF muW[d] = t THEN "w" ELSE IF t \in muR[d] THEN "r" ELSE "none"

\* One access by thread t to a guarded field of device d, with whether t
\* holds the device's mu as it makes it.
Access(t, d, f, k) ==
  [thread |-> t, device |-> d, field |-> f, kind |-> k, held |-> Held(t, d)]

\* ------------------------------------------------ MultiInterfaceManager
NewDevice(name, endpoint, localAddr) ==
  [Name |-> name, Endpoint |-> endpoint, LocalAddr |-> localAddr,
   Client |-> Nil, Connected |-> FALSE, LastError |-> NoErr]

AddDevice(endpoint, localAddr) ==
  /\ prog = "manager"
  /\ mainpc = "idle"
  /\ Len(devices) < MaxDevices
  /\ devices' = Append(devices, NewDevice(Len(devices) + 1, endpoint, localAddr))
  /\ ret' = [op |-> "AddDevice", err |-> NoErr]
  /\ acc' = {}
  /\ attempts' = <<>>
  /\ UNCHANGED <<prog, clients, muW, muR, cancelled, wg, mon, mainpc, mi, mclient,
                 merr, basicvars, testvars>>

\* ConnectAll is called: the range loop starts at the first device.
ConnectAll ==
  /\ prog = "manager"
  /\ mainpc = "idle"
  /\ Len(clients) + Len(devices) <= MaxClients
  /\ mainpc' = "ca_loop"
  /\ mi' = 1
  /\ attempts' = <<>>
  /\ ret' = NoRet
  /\ acc' = {}
  /\ UNCHANGED <<prog, clients, devices, muW, muR, cancelled, wg, mon, mclient,
                 merr, basicvars, testvars>>

\* The loop is over: return nil.
ConnectAllReturn ==
  /\ mainpc = "ca_loop"
  /\ mi > Len(devices)
  /\ mainpc' = "idle"
  /\ ret' = [op |-> "ConnectAll", err |-> NoErr]
  /\ acc' = {}
  /\ UNCHANGED <<prog, clients, devices, muW, muR, cancelled, wg, mon, mi, mclient,
                 merr, attempts, basicvars, testvars>>

\* connectDevice(device): the endpoint and the LocalAddr option it gives to
\* opcua.NewClient.
connectDeviceOptsOfFirst(device) ==
  [endpoint |-> device.Endpoint, localAddr |-> devices[1].LocalAddr]

connectDeviceOpts(device) ==
  [endpoint |-> device.Endpoint, localAddr |-> device.LocalAddr]

\* connectDevice(device): opcua.NewClient.
connectDeviceNewClient ==
  /\ mainpc = "ca_loop"
  /\ mi <= Len(devices)
  /\ LET opts == connectDeviceOpts(devices[mi])
     IN IF NewClientErr(opts.endpoint, opts.localAddr) # NoErr
        THEN /\ merr' = ErrCreate
             /\ mainpc' = "ca_err"
             /\ UNCHANGED <<clients, mclient>>
        ELSE /\ clients' = Append(clients, NewClientRec(opts.endpoint, opts.localAddr))
             /\ mclient' = Len(clients) + 1
             /\ mainpc' = "cd_connect"
             /\ UNCHANGED merr
  /\ acc' = {}
  /\ UNCHANGED <<prog, devices, muW, muR, cancelled, wg, mon, mi, ret, attempts,
                 basicvars, testvars>>

\* As connectDeviceConnect, but a failed Connect marks the device itself.
connectDeviceConnectMarksFailed ==
  /\ mainpc = "cd_connect"
  /\ \E ok \in ConnectOutcomes(cancelled) :
       IF ok
       THEN /\ clients' = [clients EXCEPT ![mclient].st = "connected"]
            /\ mainpc' = "cd_lock"
            /\ UNCHANGED <<mclient, merr, devices>>
       ELSE /\ merr' = ErrConnect
            /\ mclient' = Nil
            /\ mainpc' = "ca_err"
            /\ devices' = [devices EXCEPT ![mi].Connected = FALSE]
            /\ UNCHANGED clients
  /\ acc' = {}
  /\ UNCHANGED <<prog, muW, muR, cancelled, wg, mon, mi, ret, attempts,
                 basicvars, testvars>>

\* connectDevice: client.Connect(m.ctx); its error is returned.
connectDeviceConnect ==
  /\ mainpc = "cd_connect"
  /\ \E ok \in ConnectOutcomes(cancelled) :
       IF ok
       THEN /\ clients' = [clients EXCEPT ![mclient].st = "connected"]
            /\ mainpc' = "cd_lock"
            /\ UNCHANGED <<mclient, merr>>
       ELSE /\ merr' = ErrConnect
            /\ mclient' = Nil
            /\ mainpc' = "ca_err"
            /\ UNCHANGED clients
  /\ acc' = {}
  /\ UNCHANGED <<prog, devices, muW, muR, cancelled, wg, mon, mi, ret, attempts,
                 basicvars, testvars>>

\* As connectDeviceLock, but without taking the lock.
connectDeviceLockSkipped ==
  /\ mainpc = "cd_lock"
  /\ mainpc' = "cd_store"
  /\ acc' = {}
  /\ UNCHANGED <<prog, clients, devices, muW, muR, cancelled, wg, mon, mi, mclient,
                 merr, ret, attempts, basicvars, testvars>>

\* connectDevice: device.mu.Lock()
connectDeviceLock ==
  /\ mainpc = "cd_lock"
  /\ CanLock(mi)
  /\ muW' = [muW EXCEPT ![mi] = MainThread]
  /\ mainpc' = "cd_store"
  /\ acc' = {}
  /\ UNCHANGED <<prog, clients, devices, muR, cancelled, wg, mon, mi, mclient, merr,
                 ret, attempts, basicvars, testvars>>

\* connectDevice: the three assignments, Unlock, return nil; ConnectAll goes
\* on with the next device.
connectDeviceStore ==
  /\ mainpc = "cd_store"
  /\ devices' = [devices EXCEPT ![mi].Client = mclient,
                                ![mi].Connected = TRUE,
                                ![mi].LastError = NoErr]
  /\ acc' = {Access(MainThread, mi, f, "write") : f \in {"Client", "Connected", "LastError"}}
  /\ muW' = [muW EXCEPT ![mi] = NoThread]
  /\ attempts' = Append(attempts, [device |-> mi, err |-> NoErr])
  /\ mclient' = Nil
  /\ mi' = mi + 1
  /\ mainpc' = "ca_loop"
  /\ UNCHANGED <<prog, clients, muR, cancelled, wg, mon, merr, ret, basicvars, testvars>>

\* ConnectAll: connectDevice returned an error; device.setError(err) locks.
setErrorLock ==
  /\ mainpc = "ca_err"
  /\ CanLock(mi)
  /\ muW' = [muW EXCEPT ![mi] = MainThread]
  /\ mainpc' = "se_store"
  /\ acc' = {}
  /\ UNCHANGED <<prog, clients, devices, muR, cancelled, wg, mon, mi, mclient, merr,
                 ret, attempts, basicvars, testvars>>

\* As setErrorStore, but ConnectAll returns the error of the first device
\* that fails.
setErrorStoreAndReturn ==
  /\ mainpc = "se_store"
  /\ devices' = [devices EXCEPT ![mi].Connected = FALSE, ![mi].LastError = merr]
  /\ acc' = {Access(MainThread, mi, f, "write") : f \in {"Connected", "LastError"}}
  /\ muW' = [muW EXCEPT ![mi] = NoThread]
  /\ attempts' = Append(attempts, [device |-> mi, err |-> merr])
  /\ merr' = NoErr
  /\ ret' = [op |-> "ConnectAll", err |-> merr]
  /\ mainpc' = "idle"
  /\ UNCHANGED <<prog, clients, muR, cancelled, wg, mon, mclient, mi, basicvars, testvars>>

\* setError: the two assignments, Unlock; ConnectAll goes on with the next
\* device.
setErrorStore ==
  /\ mainpc = "se_store"
  /\ devices' = [devices EXCEPT ![mi].Connected = FALSE, ![mi].LastError = merr]
  /\ acc' = {Access(MainThread, mi, f, "write") : f \in {"Connected", "LastError"}}
  /\ muW' = [muW EXCEPT ![mi] = NoThread]
  /\ attempts' = Append(attempts, [device |-> mi, err |-> merr])
  /\ merr' = NoErr
  /\ mi' = mi + 1
  /\ mainpc' = "ca_loop"
  /\ UNCHANGED <<prog, clients, muR, cancelled, wg, mon, mclient, ret, basicvars, testvars>>

\* StartMonitoring is called.
StartMonitoring ==
  /\ prog = "manager"
  /\ mainpc = "idle"
  /\ Len(mon) + Len(devices) <= MaxMonitors
  /\ mainpc' = "sm_loop"
  /\ mi' = 1
  /\ ret' = NoRet
  /\ acc' = {}
  /\ attempts' = <<>>
  /\ UNCHANGED <<prog, clients, devices, muW, muR, cancelled, wg, mon, mclient, merr,
                 basicvars, testvars>>

\* As StartMonitoringSpawn, but without m.wg.Add(1).
StartMonitoringSpawnNoAdd ==
  /\ mainpc = "sm_loop"
  /\ mi <= Len(devices)
  /\ mon' = Append(mon, [device |-> mi, pc |-> "select", client |-> Nil, health |-> "none"])
  /\ mi' = mi + 1
  /\ acc' = {}
  /\ UNCHANGED <<prog, clients, devices, muW, muR, cancelled, wg, mainpc, mclient, merr,
                 ret, attempts, basicvars, testvars>>

\* One turn of StartMonitoring's loop: m.wg.Add(1); go m.monitorDevice(device).
StartMonitoringSpawn ==
  /\ mainpc = "sm_loop"
  /\ mi <= Len(devices)
  /\ wg' = wg + 1
  /\ mon' = Append(mon, [device |-> mi, pc |-> "select", client |-> Nil, health |-> "none"])
  /\ mi' = mi + 1
  /\ acc' = {}
  /\ UNCHANGED <<prog, clients, devices, muW, muR, cancelled, mainpc, mclient, merr,
                 ret, attempts, basicvars, testvars>>

StartMonitoringReturn ==
  /\ mainpc = "sm_loop"
  /\ mi > Len(devices)
  /\ mainpc' = "idle"
  /\ ret' = [op |-> "StartMonitoring", err |-> NoErr]
  /\ acc' = {}
  /\ UNCHANGED <<prog, clients, devices, muW, muR, cancelled, wg, mon, mi, mclient,
                 merr, attempts, basicvars, testvars>>

\* Close is called: m.cancel().
Close ==
  /\ prog = "manager"
  /\ mainpc = "idle"
  /\ cancelled' = TRUE
  /\ mainpc' = "cl_wait"
  /\ ret' = NoRet
  /\ acc' = {}
  /\ attempts' = <<>>
  /\ UNCHANGED <<prog, clients, devices, muW, muR, wg, mon, mi, mclient, merr,
                 basicvars, testvars>>

\* Close: m.wg.Wait() returns when the counter is zero.
CloseWait ==
  /\ mainpc = "cl_wait"
  /\ wg = 0
  /\ mainpc' = "cl_loop"
  /\ mi' = 1
  /\ acc' = {}
  /\ UNCHANGED <<prog, clients, devices, muW, muR, cancelled, wg, mon, mclient, merr,
                 ret, attempts, basicvars, testvars>>

\* One turn of Close's loop: device.Client is read without device.mu and, if
\* not nil, closed.
CloseDevice ==
  /\ mainpc = "cl_loop"
  /\ mi <= Len(devices)
  /\ acc' = {Access(MainThread, mi, "Client", "read")}
  /\ clients' = IF devices[mi].Client # Nil
                THEN ClientClose(clients, devices[mi].Client)
                ELSE clients
  /\ mi' = mi + 1
  /\ UNCHANGED <<prog, devices, muW, muR, cancelled, wg, mon, mainpc, mclient, merr,
                 ret, attempts, basicvars, testvars>>

CloseReturn ==
  /\ mainpc = "cl_loop"
  /\ mi > Len(devices)
  /\ mainpc' = "idle"
  /\ ret' = [op |-> "Close", err |-> NoErr]
  /\ acc' = {}
  /\ UNCHANGED <<prog, clients, devices, muW, muR, cancelled, wg, mon, mi, mclient,
                 merr, attempts, basicvars, testvars>>

\* --------------------------------------------------------- monitorDevice
\* Goroutine i is thread i. Its ticker may fire whenever it waits in select;
\* select takes either ready case.
monitorSelectDoneNoWgDone(i) ==
  /\ mon[i].pc = "select"
  /\ cancelled
  /\ mon' = [mon EXCEPT ![i].pc = "done"]
  /\ acc' = {}
  /\ UNCHANGED <<prog, clients, devices, muW, muR, cancelled, wg, mainpc, mi, mclient,
                 merr, ret, attempts, basicvars, testvars>>

\* select takes case <-m.ctx.Done(): return; the deferred ticker.Stop and
\* m.wg.Done run.
monitorSelectDone(i) ==
  /\ mon[i].pc = "select"
  /\ cancelled
  /\ mon' = [mon EXCEPT ![i].pc = "done"]
  /\ wg' = wg - 1
  /\ acc' = {}
  /\ UNCHANGED <<prog, clients, devices, muW, muR, cancelled, mainpc, mi, mclient,
                 merr, ret, attempts, basicvars, testvars>>

monitorSelectTick(i) ==
  /\ mon[i].pc = "select"
  /\ mon' = [mon EXCEPT ![i].pc = "isc"]
  /\ acc' = {}
  /\ UNCHANGED <<prog, clients, devices, muW, muR, cancelled, wg, mainpc, mi, mclient,
                 merr, ret, attempts, basicvars, testvars>>

\* device.IsConnected(): d.mu.RLock()
IsConnectedRLock(i) ==
  /\ mon[i].pc = "isc"
  /\ CanRLock(mon[i].device)
  /\ muR' = [muR EXCEPT ![mon[i].device] = @ \cup {i}]
  /\ mon' = [mon EXCEPT ![i].pc = "isc_r"]
  /\ acc' = {}
  /\ UNCHANGED <<prog, clients, devices, muW, cancelled, wg, mainpc, mi, mclient,
                 merr, ret, attempts, basicvars, testvars>>

\* As IsConnectedRead, but monitorDevice goes on whatever IsConnected says.
IsConnectedReadNoGate(i) ==
  /\ mon[i].pc = "isc_r"
  /\ acc' = {Access(i, mon[i].device, "Connected", "read")}
  /\ muR' = [muR EXCEPT ![mon[i].device] = @ \ {i}]
  /\ mon' = [mon EXCEPT ![i].pc = "gc"]
  /\ UNCHANGED <<prog, clients, devices, muW, cancelled, wg, mainpc, mi, mclient,
                 merr, ret, attempts, basicvars, testvars>>

\* IsConnected: return d.Connected, RUnlock; not connected: continue.
IsConnectedRead(i) ==
  /\ mon[i].pc = "isc_r"
  /\ acc' = {Access(i, mon[i].device, "Connected", "read")}
  /\ muR' = [muR EXCEPT ![mon[i].device] = @ \ {i}]
  /\ mon' = [mon EXCEPT ![i].pc =
               IF devices[mon[i].device].Connected THEN "gc" ELSE "select"]
  /\ UNCHANGED <<prog, clients, devices, muW, cancelled, wg, mainpc, mi, mclient,
                 merr, ret, attempts, basicvars, testvars>>

\* device.GetClient(): d.mu.RLock()
GetClientRLock(i) ==
  /\ mon[i].pc = "gc"
  /\ CanRLock(mon[i].device)
  /\ muR' = [muR EXCEPT ![mon[i].device] = @ \cup {i}]
  /\ mon' = [mon EXCEPT ![i].pc = "gc_r"]
  /\ acc' = {}
  /\ UNCHANGED <<prog, clients, devices, muW, cancelled, wg, mainpc, mi, mclient,
                 merr, ret, attempts, basicvars, testvars>>

\* GetClient: return d.Client, RUnlock; nil: continue.
GetClientRead(i) ==
  /\ mon[i].pc = "gc_r"
  /\ acc' = {Access(i, mon[i].device, "Client", "read")}
  /\ muR' = [muR EXCEPT ![mon[i].device] = @ \ {i}]
  /\ LET client == devices[mon[i].device].Client
     IN mon' = [mon EXCEPT ![i].client = client,
                           ![i].pc = IF client = Nil THEN "select" ELSE "hc"]
  /\ UNCHANGED <<prog, clients, devices, muW, cancelled, wg, mainpc, mi, mclient,
                 merr, ret, attempts, basicvars, testvars>>

\* healthCheck(client, device.Name): client.Read(m.ctx, req) is sent.
healthCheckRead(i) ==
  /\ mon[i].pc = "hc"
  /\ mon' = [mon EXCEPT ![i].pc = "reading"]
  /\ acc' = {}
  /\ UNCHANGED <<prog, clients, devices, muW, muR, cancelled, wg, mainpc, mi, mclient,
                 merr, ret, attempts, basicvars, testvars>>

\* The outcomes of client.Read(ctx, req): an error on a done context or a
\* closed client, and otherwise a good status, a bad one or an error.
ReadOutcomes(ctxDone, client) ==
  IF ctxDone \/ clients[client].st # "connected" THEN {"failed"} ELSE {"ok", "failed"}

\* As healthCheckReturn, but a failed check marks the device not connected.
healthCheckReturnMarksFailed(i) ==
  /\ mon[i].pc = "reading"
  /\ \E h \in ReadOutcomes(cancelled, mon[i].client) :
       /\ mon' = [mon EXCEPT ![i].pc = "hc_ret", ![i].client = Nil, ![i].health = h]
       /\ devices' = IF h = "failed"
                     THEN [devices EXCEPT ![mon[i].device].Connected = FALSE]
                     ELSE devices
  /\ acc' = {}
  /\ UNCHANGED <<prog, clients, muW, muR, cancelled, wg, mainpc, mi, mclient,
                 merr, ret, attempts, basicvars, testvars>>

\* healthCheck returns its verdict to monitorDevice.
healthCheckReturn(i) ==
  /\ mon[i].pc = "reading"
  /\ \E h \in ReadOutcomes(cancelled, mon[i].client) :
       mon' = [mon EXCEPT ![i].pc = "hc_ret", ![i].client = Nil, ![i].health = h]
  /\ acc' = {}
  /\ UNCHANGED <<prog, clients, devices, muW, muR, cancelled, wg, mainpc, mi, mclient,
                 merr, ret, attempts, basicvars, testvars>>

\* monitorDevice logs a failed health check, and loops.
monitorLog(i) ==
  /\ mon[i].pc = "hc_ret"
  /\ mon' = [mon EXCEPT ![i].pc = "select", ![i].health = "none"]
  /\ acc' = {}
  /\ UNCHANGED <<prog, clients, devices, muW, muR, cancelled, wg, mainpc, mi, mclient,
                 merr, ret, attempts, basicvars, testvars>>

\* The steps of goroutine i after its select.
monitorDevice(i) ==
  \/ IsConnectedRLock(i)
  \/ IsConnectedRead(i)
  \/ GetClientRLock(i)
  \/ GetClientRead(i)
  \/ healthCheckRead(i)
  \/ healthCheckReturn(i)
  \/ monitorLog(i)

\* ------------------------------------------------- the basic example's main
FlagEndpoint(k) == IF k = 1 THEN flags.endpoint1 ELSE flags.endpoint2
FlagLocalAddr(k) == IF k = 1 THEN flags.local1 ELSE flags.local2

\* connectWithLocalAddr(ctx, endpoint, localAddr), call k of main: NewClient.
connectWithLocalAddrNewClient(k) ==
  /\ bpc = <<"new", k>>
  /\ IF NewClientErr(FlagEndpoint(k), FlagLocalAddr(k)) # NoErr
     THEN /\ cwret' = [client |-> Nil, err |-> ErrCreate]
          /\ bpc' = <<"ret", k>>
          /\ UNCHANGED <<clients, cwclient>>
     ELSE /\ clients' = Append(clients, NewClientRec(FlagEndpoint(k), FlagLocalAddr(k)))
          /\ cwclient' = Len(clients) + 1
          /\ bpc' = <<"connect", k>>
          /\ UNCHANGED cwret
  /\ UNCHANGED <<prog, mgrvars, flags, client1, client2, defers, exitcode, testvars>>

\* connectWithLocalAddr: c.Connect(ctx) on the background context, and return.
connectWithLocalAddrConnect(k) ==
  /\ bpc = <<"connect", k>>
  /\ \E ok \in ConnectOutcomes(FALSE) :
       IF ok
       THEN /\ clients' = [clients EXCEPT ![cwclient].st = "connected"]
            /\ cwret' = [client |-> cwclient, err |-> NoErr]
       ELSE /\ cwret' = [client |-> Nil, err |-> ErrConnect]
            /\ UNCHANGED clients
  /\ cwclient' = Nil
  /\ bpc' = <<"ret", k>>
  /\ UNCHANGED <<prog, mgrvars, flags, client1, client2, defers, exitcode, testvars>>

\* main: an error ends the process in log.Fatalf (os.Exit(1): no deferred
\* call runs); otherwise the client's Close is deferred.
mainAfterConnect(k) ==
  /\ bpc = <<"ret", k>>
  /\ IF cwret.err # NoErr
     THEN /\ exitcode' = 1
          /\ bpc' = <<"exited", 0>>
          /\ UNCHANGED <<client1, client2, defers>>
     ELSE /\ client1' = IF k = 1 THEN cwret.client ELSE client1
          /\ client2' = IF k = 2 THEN cwret.client ELSE client2
          /\ defers' = Append(defers, cwret.client)
          /\ bpc' = IF k = 1 THEN <<"new", 2>> ELSE <<"read", 1>>
          /\ UNCHANGED exitcode
  /\ UNCHANGED <<prog, clients, mgrvars, flags, cwclient, cwret, testvars>>

\* main: readNodeValue(ctx, client_k, ...); its error is only logged.
readNodeValue(k) ==
  /\ bpc = <<"read", k>>
  /\ bpc' = IF k = 1 THEN <<"read", 2>> ELSE <<"defers", 0>>
  /\ UNCHANGED <<prog, clients, mgrvars, flags, cwclient, cwret, client1, client2,
                 defers, exitcode, testvars>>

\* main returns: the deferred Close calls run, last deferred first.
mainDeferredClose ==
  /\ bpc = <<"defers", 0>>
  /\ defers # <<>>
  /\ clients' = ClientClose(clients, defers[Len(defers)])
  /\ defers' = SubSeq(defers, 1, Len(defers) - 1)
  /\ UNCHANGED <<prog, mgrvars, flags, bpc, cwclient, cwret, client1, client2,
                 exitcode, testvars>>

mainExit ==
  /\ bpc = <<"defers", 0>>
  /\ defers = <<>>
  /\ exitcode' = 0
  /\ bpc' = <<"exited", 0>>
  /\ UNCHANGED <<prog, clients, mgrvars, flags, cwclient, cwret, client1, client2,
                 defers, testvars>>

\* ------------------------------------------------- TestLocalAddrOption
\* _, err := opcua.NewClient("opc.tcp://localhost:4840", LocalAddr(tt.localAddr), ...)
TestLocalAddrOption ==
  /\ tpc = "run"
  /\ terr' = NewClientErr("opc.tcp://localhost:4840", taddr)
  /\ tpc' = "done"
  /\ UNCHANGED <<prog, clients, mgrvars, basicvars, taddr>>

\* ------------------------------------------------------- specifications
Next ==
  \/ \E c \in DeviceConfigs : AddDevice(c[1], c[2])
  \/ ConnectAll
  \/ ConnectAllReturn
  \/ connectDeviceNewClient
  \/ connectDeviceConnect
  \/ connectDeviceLock
  \/ connectDeviceStore
  \/ setErrorLock
  \/ setErrorStore
  \/ StartMonitoring
  \/ StartMonitoringSpawn
  \/ StartMonitoringReturn
  \/ Close
  \/ CloseWait
  \/ CloseDevice
  \/ CloseReturn
  \/ \E i \in 1..Len(mon) : monitorSelectDone(i)
  \/ \E i \in 1..Len(mon) : monitorSelectTick(i)
  \/ \E i \in 1..Len(mon) : monitorDevice(i)
  \/ \E k \in {1, 2} : connectWithLocalAddrNewClient(k)
  \/ \E k \in {1, 2} : connectWithLocalAddrConnect(k)
  \/ \E k \in {1, 2} : mainAfterConnect(k)
  \/ \E k \in {1, 2} : readNodeValue(k)
  \/ mainDeferredClose
  \/ mainExit
  \/ TestLocalAddrOption

Spec == Init /\ [][Next]_vars

\* TestLocalAddrOption alone, one row of its table per behaviour.
NextTest == TestLocalAddrOption

SpecTest == InitTest /\ [][NextTest]_vars

\* The steps of a call of the manager that is in progress.
managerCallRuns ==
  \/ ConnectAllReturn
  \/ connectDeviceNewClient
  \/ connectDeviceConnect
  \/ connectDeviceLock
  \/ connectDeviceStore
  \/ setErrorLock
  \/ setErrorStore
  \/ StartMonitoringSpawn
  \/ StartMonitoringReturn
  \/ CloseWait
  \/ CloseDevice
  \/ CloseReturn

\* Every goroutine that can run does: a call in progress goes on; a monitor
\* past its select goes on, its read in flight returns, and its RLock, ready
\* whenever the writer unlocks, is granted in the end (an RWMutex admits the
\* readers that wait when the writer unlocks); a select whose ctx.Done case is
\* ready again and again takes it in the end (Go picks among the ready cases
\* at random).
Fairness ==
  /\ WF_vars(managerCallRuns)
  /\ \A i \in 1..MaxMonitors : SF_vars(i \in DOMAIN mon /\ monitorDevice(i))
  /\ \A i \in 1..MaxMonitors : SF_vars(i \in DOMAIN mon /\ monitorSelectDone(i))

FairSpec == Spec /\ Fairness

\* ------------------------------------------------------------------ claims
\* The monitorDevice goroutines that have not returned.
Running == {i \in 1..Len(mon) : mon[i].pc # "done"}

\* Close has returned and no other call was made since.
CloseReturned == prog = "manager" /\ mainpc = "idle" /\ ret.op = "Close"

\* C1: the WaitGroup counter equals the number of monitorDevice goroutines
\* started and not yet returned, so Close is past wg.Wait, and has returned,
\* only when every monitor goroutine has terminated.
C1_WaitGroupCountsMonitors ==
  /\ wg = Cardinality(Running)
  /\ mainpc = "cl_loop" => Running = {}
  /\ CloseReturned => Running = {}

\* Close returned after two monitors were started.
C1_Witness == CloseReturned /\ Len(mon) = 2 /\ Len(devices) = 2

\* C2: once the context is cancelled every monitor goroutine returns in the
\* end, and a Close that was called returns in the end.
C2_ShutdownLiveness ==
  /\ \A i \in 1..MaxMonitors :
       (cancelled /\ i \in DOMAIN mon) ~> (i \in DOMAIN mon /\ mon[i].pc = "done")
  /\ (mainpc \in {"cl_wait", "cl_loop"}) ~> CloseReturned

\* Close waits while one monitor is in the middle of a health check and
\* another idles in its select.
C2_Witness ==
  /\ mainpc = "cl_wait"
  /\ \E i, j \in 1..Len(mon) : mon[i].pc = "reading" /\ mon[j].pc = "select"

\* C3 as claimed: after Close returns, every client the manager connected is
\* closed.
C3_ConnectedClientsClosedAfterClose ==
  CloseReturned => \A c \in 1..Len(clients) : clients[c].st # "connected"

\* C4 as claimed: when the basic example's process has exited, every client
\* that connectWithLocalAddr connected is closed.
C4_BasicClientsClosedAtExit ==
  (prog = "basic" /\ bpc = <<"exited", 0>>) =>
    \A c \in 1..Len(clients) : clients[c].st # "connected"

\* Client c was created with the endpoint and the local address of device d.
CreatedFor(c, d) ==
  /\ clients[c].endpoint = devices[d].Endpoint
  /\ clients[c].localAddr = devices[d].LocalAddr

\* C5: a device's Client was created with that device's Endpoint and
\* LocalAddr; no two devices share a client; a monitor goroutine holds, and
\* reads from, only a client created for its own device that is no other
\* device's Client.
C5_PerDeviceBinding ==
  /\ \A d \in 1..Len(devices) :
       devices[d].Client # Nil => CreatedFor(devices[d].Client, d)
  /\ \A d, e \in 1..Len(devices) :
       (d # e /\ devices[d].Client # Nil) => devices[d].Client # devices[e].Client
  /\ \A i \in 1..Len(mon) :
       mon[i].client # Nil =>
         /\ CreatedFor(mon[i].client, mon[i].device)
         /\ \A d \in 1..Len(devices) :
              d # mon[i].device => devices[d].Client # mon[i].client

\* Two devices at one endpoint behind two local addresses are both connected,
\* and the second one's monitor is reading from its client.
C5_Witness ==
  /\ Len(devices) = 2
  /\ devices[1].Endpoint = devices[2].Endpoint
  /\ devices[1].LocalAddr # devices[2].LocalAddr
  /\ devices[1].Client # Nil
  /\ devices[2].Client # Nil
  /\ \E i \in 1..Len(mon) : mon[i].device = 2 /\ mon[i].pc = "reading"

\* C6 as claimed, at the states where no call of the manager is in progress:
\* a device's Connected flag is true exactly when its client was connected
\* and is not closed.
C6_ConnectedIffClientOpen ==
  (prog = "manager" /\ mainpc = "idle") =>
    \A d \in 1..Len(devices) :
      devices[d].Connected <=>
        (devices[d].Client # Nil /\ clients[devices[d].Client].st = "connected")

\* C7 as claimed: every access to Client, Connected and LastError is made
\* with the device's mu held.
C7_EveryAccessHoldsMu == \A a \in acc : a.held # "none"

\* C7 as amended: every write is made by the goroutine that calls the
\* manager's methods, under the write lock; every read is made under the lock,
\* but for Close's read of Client, which that same goroutine makes when no
\* monitor goroutine is running.
C7_AccessesHoldMuButCloseRead ==
  \A a \in acc :
    /\ a.kind = "write" => (a.held = "w" /\ a.thread = MainThread)
    /\ a.kind = "read" =>
         \/ a.held # "none"
         \/ /\ a.thread = MainThread
            /\ a.field = "Client"
            /\ mainpc = "cl_loop"
            /\ Running = {}

\* Close reads the Client of a connected device after its monitors returned.
C7_Witness ==
  /\ \E a \in acc : a.held = "none" /\ devices[a.device].Client # Nil
  /\ Len(mon) > 0

\* ConnectAll has returned and no other call was made since.
ConnectAllReturned == prog = "manager" /\ mainpc = "idle" /\ ret.op = "ConnectAll"

\* C8: ConnectAll returns nil after one connectDevice per device, in
\* registration order; a device whose connect succeeded is Connected with a
\* Client and no LastError, one whose connect failed is not Connected and its
\* LastError is the error connectDevice returned.
C8_ConnectAllIsolatesFailures ==
  ConnectAllReturned =>
    /\ ret.err = NoErr
    /\ Len(attempts) = Len(devices)
    /\ \A k \in 1..Len(attempts) :
         /\ attempts[k].device = k
         /\ attempts[k].err = NoErr =>
              /\ devices[k].Connected
              /\ devices[k].Client # Nil
              /\ devices[k].LastError = NoErr
         /\ attempts[k].err # NoErr =>
              /\ ~devices[k].Connected
              /\ devices[k].LastError = attempts[k].err
              /\ devices[k].LastError \in Errors

\* The first device failed to connect and the second one connected.
C8_Witness ==
  /\ ConnectAllReturned
  /\ Len(attempts) = 2
  /\ attempts[1].err = ErrConnect
  /\ attempts[2].err = NoErr

\* An address host:port, said without scanning: some colon is followed by
\* digits only and preceded by nothing, by an unbracketed IP literal without
\* a colon, or by a bracketed one (or empty brackets).
ValidHostPort(a) ==
  \E i \in 1..Len(a) :
    /\ a[i] = ":"
    /\ LET host == SubSeq(a, 1, i - 1)
           port == SubSeq(a, i + 1, Len(a))
           inner == SubSeq(host, 2, Len(host) - 1)
       IN /\ \A j \in 1..Len(port) : port[j] \in Digits
          /\ \/ host = <<>>
             \/ IsIPLiteral(host) /\ ~Contains(host, ":")
             \/ /\ Len(host) >= 2
                /\ host[1] = "["
                /\ host[Len(host)] = "]"
                /\ inner = <<>> \/ IsIPLiteral(inner)

C10_FailedConnectStep ==
  /\ (mainpc = "cd_connect" /\ mainpc' = "ca_err") =>
       /\ merr' = ErrConnect
       /\ devices' = devices
       /\ \A a \in acc' : a.kind # "write"
  /\ (mainpc = "ca_loop" /\ mainpc' = "cd_connect") => devices' = devices
  /\ (bpc[1] = "connect" /\ bpc'[1] = "ret") =>
       /\ clients'[cwclient].st # "connected" =>
            (cwret'.client = Nil /\ cwret'.err = ErrConnect)
       /\ cwret'.client # Nil =>
            (cwret'.err = NoErr /\ clients'[cwret'.client].st = "connected")

\* C10: a failed connection attempt is reported as an error and never as a
\* connected client, and connectDevice returns it without writing the
\* device's Client, Connected or LastError: every step is as above.
C10_FailedConnectReportsError == [][C10_FailedConnectStep]_vars

\* connectDevice has returned a Connect error for a device that an earlier
\* ConnectAll had connected.
C10_Witness ==
  /\ mainpc = "ca_err"
  /\ merr = ErrConnect
  /\ devices[mi].Connected
  /\ devices[mi].Client # Nil

C12_GatedStep(i) ==
  LET d == mon[i].device
  IN /\ (mon[i].pc # "gc" /\ mon'[i].pc = "gc") =>
          (mon[i].pc = "isc_r" /\ devices[d].Connected)
     /\ (mon[i].pc # "hc" /\ mon'[i].pc = "hc") =>
          /\ mon[i].pc = "gc_r"
          /\ devices[d].Client # Nil
          /\ mon'[i].client = devices[d].Client
     /\ (mon[i].pc # "reading" /\ mon'[i].pc = "reading") =>
          (mon[i].pc = "hc" /\ mon'[i].client = mon[i].client /\ mon[i].client # Nil)
     /\ (mon[i].pc = "isc_r" /\ ~devices[d].Connected) =>
          mon'[i].pc \in {"isc_r", "select"}
     /\ (mon[i].pc = "gc_r" /\ devices[d].Client = Nil) =>
          mon'[i].pc \in {"gc_r", "select"}

\* A monitor that is about to read, or reads, holds a client of its device
\* that was connected once, and its device has a Client.
C12_OnlyConnectedDevicesChecked ==
  \A i \in 1..Len(mon) :
    mon[i].pc \in {"hc", "reading"} =>
      /\ mon[i].client # Nil
      /\ clients[mon[i].client].st # "new"
      /\ devices[mon[i].device].Client # Nil

\* C12: on a tick a monitor issues a health-check read only after IsConnected
\* returned true and GetClient a client in that tick; a device that never
\* connected is never health-checked; a skipped tick leaves the monitor
\* running at its select.
C12_HealthChecksGated ==
  /\ []C12_OnlyConnectedDevicesChecked
  /\ [][\A i \in 1..Len(mon) : C12_GatedStep(i)]_vars

\* A monitor has just skipped a tick because its device is not connected,
\* and is back at its select, while another monitor reads.
C12_Witness ==
  /\ \E a \in acc :
       /\ a.thread # MainThread
       /\ a.field = "Connected"
       /\ ~devices[a.device].Connected
       /\ mon[a.thread].pc = "select"
  /\ \E j \in 1..Len(mon) : mon[j].pc = "reading"

\* What C13 asks of one step: a device's Client, Connected and LastError
\* change only in the assignments of connectDevice and setError for that
\* device, so in no step of monitorDevice, healthCheck or Close, which make
\* no write access either; and no client is created but in connectDevice.
C13_FrameStep ==
  /\ \A d \in 1..Len(devices) :
       devices'[d] # devices[d] => (mainpc \in {"cd_store", "se_store"} /\ mi = d)
  /\ (mon' # mon \/ mainpc \in {"cl_wait", "cl_loop"} \/ mainpc' = "cl_wait") =>
       /\ \A d \in 1..Len(devices) : devices'[d] = devices[d]
       /\ \A a \in acc' : a.kind # "write"
       /\ clients' = clients \/ mainpc = "cl_loop"
  /\ (prog = "manager" /\ Len(clients') # Len(clients)) => mainpc = "ca_loop"

\* C13: monitorDevice, healthCheck and Close leave every device's Connected,
\* LastError and Client unchanged, whether a health check passes or fails;
\* only ConnectAll's connectDevice and setError change them, and a failed
\* device is connected again by no one else.
C13_MonitoringLeavesDevices == [][C13_FrameStep]_vars

\* A health check has just failed on a live context, and its device is still
\* reported as connected.
C13_Witness ==
  /\ ~cancelled
  /\ \E i \in 1..Len(mon) :
       /\ mon[i].pc = "hc_ret"
       /\ mon[i].health = "failed"
       /\ devices[mon[i].device].Connected

====
